---------------------------- MODULE Spec2Model ----------------------------
(***************************************************************************)
(* ST7701 MIPI-DSI panel driver (esp_lcd_st7701_mipi.c): the panel state   *)
(* st7701_panel_t, the constructor esp_lcd_new_panel_st7701_mipi and the   *)
(* seven panel operations it installs on the wrapped MIPI DPI panel.       *)
(*                                                                         *)
(* Every call into a collaborator (transport, GPIO, heap, DPI panel, RTOS  *)
(* delay) is appended to `trace` together with its result, so the order    *)
(* and the content of what a handler sends can be stated.  A collaborator  *)
(* that can fail fails nondeterministically.                               *)
(***************************************************************************)
EXTENDS Integers, Sequences, FiniteSets, TLC

VARIABLES
    pc,                  \* "start" | "failed" | "idle" | "init_loop" | "deleted"
    cfg,                 \* the panel_dev_config the panel was constructed from
    st7701,              \* the st7701_panel_t fields
    allocated,           \* the calloc'ed st7701_panel_t has not been freed
    rst_configured,      \* the reset pin is configured as an output by the driver
    ret_panel,           \* *ret_panel holds a panel handle
    call,                \* the most recent call: its name and arguments
    ret,                 \* the status the most recent call returned
    trace,               \* the collaborator calls the most recent call made
    i,                   \* panel_st7701_init: loop index (1-based)
    is_command2_disable, \* panel_st7701_init: local flag
    init_cmds            \* panel_st7701_init: the active command list

vars == << pc, cfg, st7701, allocated, rst_configured, ret_panel, call, ret,
           trace, i, is_command2_disable, init_cmds >>

---------------------------------------------------------------------------
(* Bounds of the exploration *)

\* longest caller-supplied command list explored
MaxCmds == 3

---------------------------------------------------------------------------
(* Command codes and bit masks (esp_lcd_panel_commands.h,                  *)
(* esp_lcd_st7701_interface.h)                                             *)

LCD_CMD_SWRESET == 1     \* 0x01
LCD_CMD_SLPIN == 16      \* 0x10
LCD_CMD_SLPOUT == 17     \* 0x11
LCD_CMD_INVOFF == 32     \* 0x20
LCD_CMD_INVON == 33      \* 0x21
LCD_CMD_DISPOFF == 40    \* 0x28
LCD_CMD_DISPON == 41     \* 0x29
LCD_CMD_MADCTL == 54     \* 0x36
LCD_CMD_COLMOD == 58     \* 0x3A
LCD_CMD_BGR_BIT == 8     \* 1 << 3
LCD_CMD_ML_BIT == 16     \* 1 << 4
ST7701_CMD_SDIR == 199         \* 0xC7
ST7701_CMD_SS_BIT == 4         \* 1 << 2
ST7701_CMD_CND2BKxSEL == 255   \* 0xFF
ST7701_CMD_BKxSEL_BYTE0 == 119 \* 0x77
ST7701_CMD_BKxSEL_BYTE1 == 1
ST7701_CMD_BKxSEL_BYTE2 == 0
ST7701_CMD_BKxSEL_BYTE3 == 0
ST7701_CMD_CN2_BIT == 16       \* 1 << 4
ST7701_CMD_BKxSEL_BK0 == 0
\* the read-ID command panel_st7701_init sends, and the number of ID bytes
CMD_READ_ID == 4
ID_BYTES == 3
\* the delays of reset and sleep, in milliseconds
RESET_GPIO_DELAY_MS == 10
RESET_SW_DELAY_MS == 20
SLEEP_DELAY_MS == 100
\* COLMOD codes of the three pixel widths
COLMOD_RGB565 == 85      \* 0x55
COLMOD_RGB666 == 102     \* 0x66
COLMOD_RGB888 == 119     \* 0x77

\* status codes
ESP_OK == "ESP_OK"
ESP_FAIL == "ESP_FAIL"
ESP_ERR_INVALID_ARG == "ESP_ERR_INVALID_ARG"
ESP_ERR_NOT_SUPPORTED == "ESP_ERR_NOT_SUPPORTED"
ESP_ERR_NO_MEM == "ESP_ERR_NO_MEM"
\* what a failing collaborator returns
IO_ERR == "ESP_ERR_TIMEOUT"
GPIO_ERR == "ESP_ERR_INVALID_STATE"
DPI_ERR == "ESP_ERR_NOT_FOUND"
\* no call has returned yet / a call is in progress
NO_RET == "NO_RET"

\* the transport handle: NULL, or the caller's handle
NULL == "NULL"
IO == "io"

LCD_RGB_ELEMENT_ORDER_RGB == "RGB"
LCD_RGB_ELEMENT_ORDER_BGR == "BGR"

---------------------------------------------------------------------------
(* uint8_t bit operations; b is a single-bit mask *)

BitSet(v, b) == (v \div b) % 2 = 1
OrBit(v, b) == IF BitSet(v, b) THEN v ELSE v + b
AndNotBit(v, b) == IF BitSet(v, b) THEN v - b ELSE v

---------------------------------------------------------------------------
(* Collaborator calls, as they appear in `trace` *)

Op(op, arg, data, res) == [op |-> op, arg |-> arg, data |-> data, res |-> res]
\* esp_lcd_panel_io_tx_param(io, cmd, data, Len(data))
Tx(cmd, data) == Op("tx", cmd, data, ESP_OK)
\* esp_lcd_panel_io_rx_param(io, cmd, buf, n)
Rx(cmd, n) == Op("rx", cmd, <<n>>, ESP_OK)
\* vTaskDelay(pdMS_TO_TICKS(ms))
Delay(ms) == Op("delay", ms, <<>>, ESP_OK)
\* gpio_set_level(pin, level)
GpioSet(pin, level) == Op("gpio_set_level", pin, <<IF level THEN 1 ELSE 0>>, ESP_OK)
GpioConfig(pin) == Op("gpio_config", pin, <<>>, ESP_OK)
GpioResetPin(pin) == Op("gpio_reset_pin", pin, <<>>, ESP_OK)
NewPanelDpi == Op("esp_lcd_new_panel_dpi", 0, <<>>, ESP_OK)
DelegateInit == Op("dpi_init", 0, <<>>, ESP_OK)
DelegateDel == Op("dpi_del", 0, <<>>, ESP_OK)
Free == Op("free", 0, <<>>, ESP_OK)

Failed(o, err) == [o EXCEPT !.res = err]

\* The calls a straight-line sequence of ESP_RETURN_ON_ERROR steps makes when
\* its f-th call fails with err (f = 0: none fails): the calls before it
\* succeed, the failing call is the last one made.
Attempt(plan, f, err) ==
    IF f = 0 THEN plan
    ELSE SubSeq(plan, 1, f - 1) \o << Failed(plan[f], err) >>

\* The positions of a plan at which a transport call stands
Fallible(plan) == { k \in 1..Len(plan) : plan[k].op \in {"tx", "rx"} }

---------------------------------------------------------------------------
(* esp_panel_lcd_vendor_init_cmd_t and the command lists *)

Cmd(cmd, data, data_bytes, delay_ms) ==
    [cmd |-> cmd, data |-> data, data_bytes |-> data_bytes, delay_ms |-> delay_ms]

\* the bytes an entry puts on the transport
Param(c) == SubSeq(c.data, 1, c.data_bytes)

\* static const esp_panel_lcd_vendor_init_cmd_t vendor_specific_init_default[]
vendor_specific_init_default ==
    << Cmd(255, <<119, 1, 0, 0, 19>>, 5, 0),
       Cmd(239, <<8>>, 1, 0),
       Cmd(255, <<119, 1, 0, 0, 16>>, 5, 0),
       Cmd(192, <<44, 0>>, 2, 0),
       Cmd(193, <<16, 12>>, 2, 0),
       Cmd(194, <<33, 10>>, 2, 0),
       Cmd(204, <<16>>, 1, 0),
       Cmd(176, <<0, 11, 18, 13, 16, 6, 2, 8, 7, 31, 4, 17, 15, 41, 49, 30>>, 16, 0),
       Cmd(177, <<0, 11, 19, 13, 17, 6, 3, 8, 7, 32, 4, 18, 17, 41, 49, 30>>, 16, 0),
       Cmd(255, <<119, 1, 0, 0, 17>>, 5, 0),
       Cmd(176, <<93>>, 1, 0),
       Cmd(177, <<114>>, 1, 0),
       Cmd(178, <<132>>, 1, 0),
       Cmd(179, <<128>>, 1, 0),
       Cmd(181, <<77>>, 1, 0),
       Cmd(183, <<133>>, 1, 0),
       Cmd(184, <<32>>, 1, 0),
       Cmd(193, <<120>>, 1, 0),
       Cmd(194, <<120>>, 1, 0),
       Cmd(208, <<136>>, 1, 0),
       Cmd(224, <<128, 0, 2>>, 3, 0),
       Cmd(225, <<5, 0, 7, 0, 6, 0, 8, 0, 0, 51, 51>>, 11, 0),
       Cmd(226, <<0, 0, 48, 48, 1, 0, 0, 0, 1, 0, 0, 0>>, 12, 0),
       Cmd(227, <<0, 0, 17, 17>>, 4, 0),
       Cmd(228, <<68, 68>>, 2, 0),
       Cmd(229, <<12, 120, 0, 224, 14, 122, 0, 224, 8, 116, 0, 224, 10, 118, 0, 224>>, 16, 0),
       Cmd(230, <<0, 0, 17, 17>>, 4, 0),
       Cmd(231, <<68, 68>>, 2, 0),
       Cmd(232, <<13, 121, 0, 224, 15, 123, 0, 224, 9, 117, 0, 224, 11, 119, 0, 224>>, 16, 0),
       Cmd(233, <<54, 0>>, 2, 0),
       Cmd(235, <<0, 1, 228, 228, 68, 136, 64>>, 7, 0),
       Cmd(237, <<161, 194, 251, 15, 103, 69, 255, 255, 255, 255, 84, 118, 240, 191, 44, 26>>, 16, 0),
       Cmd(239, <<16, 13, 4, 8, 63, 31>>, 6, 0),
       Cmd(255, <<119, 1, 0, 0, 19>>, 5, 0),
       Cmd(232, <<0, 14>>, 2, 0),
       Cmd(232, <<0, 12>>, 2, 20),
       Cmd(232, <<0, 0>>, 2, 0),
       Cmd(255, <<119, 1, 0, 0, 0>>, 5, 0),
       Cmd(17, <<0>>, 0, 120),
       Cmd(41, <<0>>, 0, 0) >>

\* The page-select (Command2 BKx selection) parameter bytes with 5th byte b
BKxSEL(b) == << ST7701_CMD_BKxSEL_BYTE0, ST7701_CMD_BKxSEL_BYTE1,
                ST7701_CMD_BKxSEL_BYTE2, ST7701_CMD_BKxSEL_BYTE3, b >>

\* The entries caller-supplied lists are built from: an orientation entry
\* with and without a parameter byte, a pixel-format entry, page selects
\* with the CN2 bit set and clear, and a page select with only 4 bytes.
CallerEntries ==
    { Cmd(LCD_CMD_MADCTL, <<64>>, 1, 0),
      Cmd(LCD_CMD_MADCTL, <<64>>, 0, 0),
      Cmd(LCD_CMD_COLMOD, <<96>>, 1, 10),
      Cmd(ST7701_CMD_CND2BKxSEL, BKxSEL(ST7701_CMD_CN2_BIT), 5, 0),
      Cmd(ST7701_CMD_CND2BKxSEL, BKxSEL(0), 5, 0),
      Cmd(ST7701_CMD_CND2BKxSEL, BKxSEL(ST7701_CMD_CN2_BIT), 4, 0) }

CallerLists == UNION { [1..n -> CallerEntries] : n \in 0..MaxCmds }

\* the reset pins explored: none, or GPIO 5
ResetPins == {-1, 5}

\* esp_lcd_panel_dev_config_t with its vendor_config's init_cmds.  The
\* command list is read by panel_st7701_init alone, which reads neither the
\* reset pin nor its polarity and overwrites the two registers whatever
\* they held, so caller-supplied lists are explored with one reset wiring,
\* one colour order and one pixel width.
Configs ==
    { c \in [ reset_gpio_num : ResetPins,
              reset_active_high : BOOLEAN,
              color_space : {LCD_RGB_ELEMENT_ORDER_RGB, LCD_RGB_ELEMENT_ORDER_BGR, "other"},
              bits_per_pixel : {16, 18, 20, 24},
              init_cmds_set : BOOLEAN,
              init_cmds : CallerLists ] :
        /\ ~c.init_cmds_set => c.init_cmds = <<>>
        /\ c.init_cmds_set => /\ c.reset_gpio_num = -1
                               /\ ~c.reset_active_high
                               /\ c.color_space = LCD_RGB_ELEMENT_ORDER_BGR
                               /\ c.bits_per_pixel = 16 }

---------------------------------------------------------------------------
(* esp_lcd_new_panel_st7701_mipi *)

\* calloc(1, sizeof(st7701_panel_t))
ZeroPanel ==
    [ io |-> NULL, reset_gpio_num |-> 0, madctl_val |-> 0, colmod_val |-> 0,
      init_cmds_set |-> FALSE, init_cmds |-> <<>>, reset_level |-> FALSE ]

\* switch (panel_dev_config->color_space)
ColorSupported(color_space) ==
    color_space \in {LCD_RGB_ELEMENT_ORDER_RGB, LCD_RGB_ELEMENT_ORDER_BGR}

MadctlInit(color_space, madctl_val) ==
    IF color_space = LCD_RGB_ELEMENT_ORDER_RGB THEN 0
    ELSE OrBit(madctl_val, LCD_CMD_BGR_BIT)

\* switch (panel_dev_config->bits_per_pixel)
BppSupported(bits_per_pixel) == bits_per_pixel \in {16, 18, 24}

\* ColmodOf with case 18 falling through to the code of case 16
ColmodOf_Fallthrough(bits_per_pixel) ==
    CASE bits_per_pixel = 16 -> COLMOD_RGB565
      [] bits_per_pixel = 18 -> COLMOD_RGB565
      [] bits_per_pixel = 24 -> COLMOD_RGB888

ColmodOf(bits_per_pixel) ==
    CASE bits_per_pixel = 16 -> COLMOD_RGB565
      [] bits_per_pixel = 18 -> COLMOD_RGB666
      [] bits_per_pixel = 24 -> COLMOD_RGB888

\* the err: label
ErrCleanup(c) ==
    IF c.reset_gpio_num >= 0 THEN << GpioResetPin(c.reset_gpio_num) >> ELSE << >>

\* The collaborators of the constructor that can fail
NewPanelFailures == {"none", "calloc", "gpio_config", "esp_lcd_new_panel_dpi"}

\* The outcome of the constructor on transport handle io_arg, configuration
\* c (vendor_ok: vendor_config, its dpi_config and its dsi_bus are all
\* there) when collaborator f fails.
NewPanel(io_arg, c, vendor_ok, f) ==
    LET pin == c.reset_gpio_num
        Out(p, st, alloc, rst, handle, r, tr) ==
            [ pc |-> p, st |-> st, allocated |-> alloc, rst_configured |-> rst,
              ret_panel |-> handle, ret |-> r, trace |-> tr ]
        \* goto err
        Err(st, r, tr) ==
            LET cleanup == ErrCleanup(c)
            IN  Out("failed", st,
                    ~(\E k \in 1..Len(cleanup) : cleanup[k].op = "free"),
                    FALSE, FALSE, r, tr \o cleanup)
        tr1 == IF pin >= 0
               THEN << IF f = "gpio_config" THEN Failed(GpioConfig(pin), GPIO_ERR)
                       ELSE GpioConfig(pin) >>
               ELSE << >>
        st2 == [ZeroPanel EXCEPT
                   !.madctl_val = MadctlInit(c.color_space, ZeroPanel.madctl_val)]
        st3 == [st2 EXCEPT !.colmod_val = ColmodOf(c.bits_per_pixel)]
        st4 == [st3 EXCEPT !.io = io_arg,
                           !.init_cmds_set = c.init_cmds_set,
                           !.init_cmds = c.init_cmds,
                           !.reset_gpio_num = pin,
                           !.reset_level = c.reset_active_high]
    IN  IF io_arg = NULL \/ ~vendor_ok
        THEN Out("failed", ZeroPanel, FALSE, FALSE, FALSE, ESP_ERR_INVALID_ARG, << >>)
        ELSE IF f = "calloc"
        THEN Out("failed", ZeroPanel, FALSE, FALSE, FALSE, ESP_ERR_NO_MEM, << >>)
        ELSE IF pin >= 0 /\ f = "gpio_config"
        THEN Err(ZeroPanel, GPIO_ERR, tr1)
        ELSE IF ~ColorSupported(c.color_space)
        THEN Err(ZeroPanel, ESP_ERR_NOT_SUPPORTED, tr1)
        ELSE IF ~BppSupported(c.bits_per_pixel)
        THEN Err(st2, ESP_ERR_NOT_SUPPORTED, tr1)
        ELSE IF f = "esp_lcd_new_panel_dpi"
        THEN Err(st4, DPI_ERR, tr1 \o << Failed(NewPanelDpi, DPI_ERR) >>)
        ELSE Out("idle", st4, TRUE, pin >= 0, TRUE, ESP_OK, tr1 \o << NewPanelDpi >>)

esp_lcd_new_panel_st7701_mipi ==
    /\ pc = "start"
    /\ \E io_arg \in {NULL, IO}, c \in Configs, vendor_ok \in BOOLEAN,
          f \in NewPanelFailures :
          LET r == NewPanel(io_arg, c, vendor_ok, f)
          IN  /\ pc' = r.pc
              /\ cfg' = c
              /\ st7701' = r.st
              /\ allocated' = r.allocated
              /\ rst_configured' = r.rst_configured
              /\ ret_panel' = r.ret_panel
              /\ ret' = r.ret
              /\ trace' = r.trace
              /\ call' = [op |-> "new", io |-> io_arg, vendor_ok |-> vendor_ok,
                          fail |-> f]
    /\ UNCHANGED << i, is_command2_disable, init_cmds >>

---------------------------------------------------------------------------
(* The panel operations.  Each runs on a constructed panel that no other   *)
(* operation is running on (the caller serialises the calls).              *)

\* what ESP_RETURN_ON_ERROR returns when the f-th call of a plan fails
Status(f) == IF f = 0 THEN ESP_OK ELSE IO_ERR

\* A handler that makes the calls of `plan` in order, returning at the first
\* that fails, and leaves the panel fields as st
Handler(c, st, plan) ==
    /\ pc = "idle"
    /\ \E f \in {0} \cup Fallible(plan) :
          /\ trace' = Attempt(plan, f, IO_ERR)
          /\ ret' = Status(f)
    /\ call' = c
    /\ st7701' = st
    /\ UNCHANGED << pc, cfg, allocated, rst_configured, ret_panel, i,
                    is_command2_disable, init_cmds >>

\* panel_st7701_del
DelPlan(st) ==
    (IF st.reset_gpio_num >= 0 THEN << GpioResetPin(st.reset_gpio_num) >> ELSE << >>)
    \o << DelegateDel, Free >>

panel_st7701_del ==
    /\ pc = "idle"
    /\ pc' = "deleted"
    /\ trace' = DelPlan(st7701)
    /\ allocated' = FALSE
    /\ rst_configured' = FALSE
    /\ ret' = ESP_OK
    /\ call' = [op |-> "del"]
    /\ UNCHANGED << cfg, st7701, ret_panel, i, is_command2_disable, init_cmds >>

\* ResetPlan with the software reset in an `if` of its own, not an `else if`
ResetPlan_Both(st) ==
    (IF st.reset_gpio_num >= 0
     THEN << GpioSet(st.reset_gpio_num, st.reset_level),
             Delay(RESET_GPIO_DELAY_MS),
             GpioSet(st.reset_gpio_num, ~st.reset_level),
             Delay(RESET_GPIO_DELAY_MS) >>
     ELSE << >>)
    \o (IF st.io # NULL
        THEN << Tx(LCD_CMD_SWRESET, << >>), Delay(RESET_SW_DELAY_MS) >>
        ELSE << >>)

\* panel_st7701_reset
ResetPlan(st) ==
    IF st.reset_gpio_num >= 0
    THEN << GpioSet(st.reset_gpio_num, st.reset_level),
            Delay(RESET_GPIO_DELAY_MS),
            GpioSet(st.reset_gpio_num, ~st.reset_level),
            Delay(RESET_GPIO_DELAY_MS) >>
    ELSE IF st.io # NULL
    THEN << Tx(LCD_CMD_SWRESET, << >>), Delay(RESET_SW_DELAY_MS) >>
    ELSE << >>

panel_st7701_reset ==
    /\ pc = "idle"
    /\ Handler([op |-> "reset"], st7701, ResetPlan(st7701))

\* panel_st7701_invert_color.  A transmit on a NULL transport handle is a
\* fault inside the transport library; the call is not explored.
InvertPlan(invert_color_data) ==
    << Tx(IF invert_color_data THEN LCD_CMD_INVON ELSE LCD_CMD_INVOFF, << >>) >>

panel_st7701_invert_color ==
    /\ st7701.io # NULL
    /\ \E invert_color_data \in BOOLEAN :
          Handler([op |-> "invert_color", invert |-> invert_color_data],
                  st7701, InvertPlan(invert_color_data))

\* MirrorIoCheck left out
MirrorIoCheck_Missing(io) == TRUE

\* panel_st7701_mirror
MirrorIoCheck(io) == io # NULL

SdirVal(mirror_x) == IF mirror_x THEN ST7701_CMD_SS_BIT ELSE 0

\* MirrorMadctl assigning the register instead of or-ing and masking it
MirrorMadctl_Assign(madctl_val, mirror_y) ==
    IF mirror_y THEN LCD_CMD_ML_BIT ELSE 0

MirrorMadctl(madctl_val, mirror_y) ==
    IF mirror_y THEN OrBit(madctl_val, LCD_CMD_ML_BIT)
    ELSE AndNotBit(madctl_val, LCD_CMD_ML_BIT)

\* MirrorPlan writing MADCTL before Command2 is disabled
MirrorPlan_MadctlInBank(sdir_val, madctl_val) ==
    << Tx(ST7701_CMD_CND2BKxSEL, << ST7701_CMD_BKxSEL_BYTE0, ST7701_CMD_BKxSEL_BYTE1,
                                    ST7701_CMD_BKxSEL_BYTE2, ST7701_CMD_BKxSEL_BYTE3,
                                    ST7701_CMD_BKxSEL_BK0 + ST7701_CMD_CN2_BIT >>),
       Tx(ST7701_CMD_SDIR, << sdir_val >>),
       Tx(LCD_CMD_MADCTL, << madctl_val >>),
       Tx(ST7701_CMD_CND2BKxSEL, << ST7701_CMD_BKxSEL_BYTE0, ST7701_CMD_BKxSEL_BYTE1,
                                    ST7701_CMD_BKxSEL_BYTE2, ST7701_CMD_BKxSEL_BYTE3, 0 >>) >>

MirrorPlan(sdir_val, madctl_val) ==
    << Tx(ST7701_CMD_CND2BKxSEL, BKxSEL(OrBit(ST7701_CMD_BKxSEL_BK0, ST7701_CMD_CN2_BIT))),
       Tx(ST7701_CMD_SDIR, << sdir_val >>),
       Tx(ST7701_CMD_CND2BKxSEL, BKxSEL(0)),
       Tx(LCD_CMD_MADCTL, << madctl_val >>) >>

panel_st7701_mirror ==
    \E mirror_x \in BOOLEAN, mirror_y \in BOOLEAN :
        LET c == [op |-> "mirror", mirror_x |-> mirror_x, mirror_y |-> mirror_y]
            st == [st7701 EXCEPT !.madctl_val = MirrorMadctl(@, mirror_y)]
        IN  IF MirrorIoCheck(st7701.io)
            THEN Handler(c, st, MirrorPlan(SdirVal(mirror_x), st.madctl_val))
            ELSE /\ pc = "idle"
                 /\ ret' = ESP_FAIL
                 /\ trace' = << >>
                 /\ call' = c
                 /\ UNCHANGED << pc, cfg, st7701, allocated, rst_configured,
                                 ret_panel, i, is_command2_disable, init_cmds >>

\* panel_st7701_disp_on_off
DispPlan(on_off) ==
    << Tx(IF on_off THEN LCD_CMD_DISPON ELSE LCD_CMD_DISPOFF, << >>) >>

panel_st7701_disp_on_off ==
    /\ st7701.io # NULL
    /\ \E on_off \in BOOLEAN :
          Handler([op |-> "disp_on_off", on_off |-> on_off], st7701, DispPlan(on_off))

\* panel_st7701_sleep
SleepPlan(sleep) ==
    << Tx(IF sleep THEN LCD_CMD_SLPIN ELSE LCD_CMD_SLPOUT, << >>),
       Delay(SLEEP_DELAY_MS) >>

panel_st7701_sleep ==
    /\ st7701.io # NULL
    /\ \E sleep \in BOOLEAN :
          Handler([op |-> "sleep", sleep |-> sleep], st7701, SleepPlan(sleep))

---------------------------------------------------------------------------
(* panel_st7701_init: the reads and writes ahead of the loop, one step per *)
(* iteration of the loop, and the forward to the DPI panel's init          *)

\* InitHeadPlan writing COLMOD before MADCTL
InitHeadPlan_ColmodFirst(st) ==
    << Op("rx", CMD_READ_ID, << ID_BYTES >>, ESP_OK),
       Tx(ST7701_CMD_CND2BKxSEL, << ST7701_CMD_BKxSEL_BYTE0, ST7701_CMD_BKxSEL_BYTE1,
                                    ST7701_CMD_BKxSEL_BYTE2, ST7701_CMD_BKxSEL_BYTE3, 0 >>),
       Tx(LCD_CMD_COLMOD, << st.colmod_val >>),
       Tx(LCD_CMD_MADCTL, << st.madctl_val >>) >>

\* the ID read, the page select to page 0, MADCTL and COLMOD
InitHeadPlan(st) ==
    << Rx(CMD_READ_ID, ID_BYTES),
       Tx(ST7701_CMD_CND2BKxSEL, BKxSEL(0)),
       Tx(LCD_CMD_MADCTL, << st.madctl_val >>),
       Tx(LCD_CMD_COLMOD, << st.colmod_val >>) >>

\* ActiveInitCmds without the fallback to the built-in table
ActiveInitCmds_NoDefault(st) == st.init_cmds

\* if (st7701->init_cmds) ... else ...
ActiveInitCmds(st) ==
    IF st.init_cmds_set THEN st.init_cmds ELSE vendor_specific_init_default

\* OverrideRegs without the test of is_command2_disable
OverrideRegs_AnyPage(st, command2_disable, c) ==
    IF c.data_bytes > 0
    THEN CASE c.cmd = LCD_CMD_MADCTL -> [st EXCEPT !.madctl_val = c.data[1]]
           [] c.cmd = LCD_CMD_COLMOD -> [st EXCEPT !.colmod_val = c.data[1]]
           [] OTHER -> st
    ELSE st

\* the override check at the top of the loop body
OverrideRegs(st, command2_disable, c) ==
    IF command2_disable /\ c.data_bytes > 0
    THEN CASE c.cmd = LCD_CMD_MADCTL -> [st EXCEPT !.madctl_val = c.data[1]]
           [] c.cmd = LCD_CMD_COLMOD -> [st EXCEPT !.colmod_val = c.data[1]]
           [] OTHER -> st
    ELSE st

\* Command2DisableAfter never updating the flag
Command2DisableAfter_Stale(command2_disable, c) == command2_disable

\* the flag update at the bottom of the loop body
Command2DisableAfter(command2_disable, c) ==
    IF c.cmd = ST7701_CMD_CND2BKxSEL /\ c.data_bytes > 4
    THEN ~BitSet(c.data[5], ST7701_CMD_CN2_BIT)
    ELSE command2_disable

\* the locals of panel_st7701_init outside a call
NoLocals ==
    /\ i' = 0
    /\ is_command2_disable' = TRUE
    /\ init_cmds' = << >>

panel_st7701_init_head ==
    /\ pc = "idle"
    /\ st7701.io # NULL
    /\ LET plan == InitHeadPlan(st7701)
       IN  \E f \in {0} \cup Fallible(plan) :
              /\ trace' = Attempt(plan, f, IO_ERR)
              /\ IF f = 0
                 THEN /\ pc' = "init_loop"
                      /\ ret' = NO_RET
                      /\ i' = 1
                      /\ is_command2_disable' = TRUE
                      /\ init_cmds' = ActiveInitCmds(st7701)
                 ELSE /\ pc' = "idle"
                      /\ ret' = IO_ERR
                      /\ NoLocals
    /\ call' = [op |-> "init"]
    /\ UNCHANGED << cfg, st7701, allocated, rst_configured, ret_panel >>

panel_st7701_init_loop ==
    /\ pc = "init_loop"
    /\ i <= Len(init_cmds)
    /\ LET c == init_cmds[i]
       IN  /\ st7701' = OverrideRegs(st7701, is_command2_disable, c)
           /\ \/ /\ trace' = trace \o << Tx(c.cmd, Param(c)), Delay(c.delay_ms) >>
                 /\ is_command2_disable' = Command2DisableAfter(is_command2_disable, c)
                 /\ i' = i + 1
                 /\ UNCHANGED << pc, ret, init_cmds >>
              \/ /\ trace' = trace \o << Failed(Tx(c.cmd, Param(c)), IO_ERR) >>
                 /\ pc' = "idle"
                 /\ ret' = IO_ERR
                 /\ NoLocals
    /\ UNCHANGED << cfg, allocated, rst_configured, ret_panel, call >>

panel_st7701_init_tail ==
    /\ pc = "init_loop"
    /\ i > Len(init_cmds)
    /\ \E r \in {ESP_OK, DPI_ERR} :
          /\ trace' = trace \o << Failed(DelegateInit, r) >>
          /\ ret' = r
    /\ pc' = "idle"
    /\ NoLocals
    /\ UNCHANGED << cfg, st7701, allocated, rst_configured, ret_panel, call >>

---------------------------------------------------------------------------
(* The driver from construction on *)

NoPanel ==
    [ reset_gpio_num |-> -1, reset_active_high |-> FALSE,
      color_space |-> LCD_RGB_ELEMENT_ORDER_RGB, bits_per_pixel |-> 16,
      init_cmds_set |-> FALSE, init_cmds |-> << >> ]

Init ==
    /\ pc = "start"
    /\ cfg = NoPanel
    /\ st7701 = ZeroPanel
    /\ allocated = FALSE
    /\ rst_configured = FALSE
    /\ ret_panel = FALSE
    /\ call = [op |-> "none"]
    /\ ret = NO_RET
    /\ trace = << >>
    /\ i = 0
    /\ is_command2_disable = TRUE
    /\ init_cmds = << >>

Next ==
    \/ esp_lcd_new_panel_st7701_mipi
    \/ panel_st7701_del
    \/ panel_st7701_reset
    \/ panel_st7701_init_head
    \/ panel_st7701_init_loop
    \/ panel_st7701_init_tail
    \/ panel_st7701_invert_color
    \/ panel_st7701_mirror
    \/ panel_st7701_disp_on_off
    \/ panel_st7701_sleep

Spec == Init /\ [][Next]_vars

---------------------------------------------------------------------------
(* The panel operations on their own: the handlers take the panel state    *)
(* from panel->user_data and test st7701->io for NULL, which no code of    *)
(* this file ever stores; here they start from any panel state, a NULL     *)
(* transport reference included.                                           *)

PanelStates ==
    [ io : {NULL, IO},
      reset_gpio_num : ResetPins,
      madctl_val : { MirrorMadctl(MadctlInit(c, 0), my) :
                        c \in {LCD_RGB_ELEMENT_ORDER_RGB, LCD_RGB_ELEMENT_ORDER_BGR},
                        my \in BOOLEAN },
      colmod_val : { ColmodOf(b) : b \in {16, 18, 24} },
      init_cmds_set : {FALSE},
      init_cmds : {<< >>},
      reset_level : BOOLEAN ]

\* a configuration the panel state st is constructed from
ConfigOf(st) ==
    [ reset_gpio_num |-> st.reset_gpio_num,
      reset_active_high |-> st.reset_level,
      color_space |-> IF BitSet(st.madctl_val, LCD_CMD_BGR_BIT)
                      THEN LCD_RGB_ELEMENT_ORDER_BGR ELSE LCD_RGB_ELEMENT_ORDER_RGB,
      bits_per_pixel |-> CHOOSE b \in {16, 18, 24} : ColmodOf(b) = st.colmod_val,
      init_cmds_set |-> st.init_cmds_set,
      init_cmds |-> st.init_cmds ]

InitHandler ==
    /\ pc = "idle"
    /\ st7701 \in PanelStates
    /\ cfg = ConfigOf(st7701)
    /\ allocated = TRUE
    /\ rst_configured = (st7701.reset_gpio_num >= 0)
    /\ ret_panel = TRUE
    /\ call = [op |-> "none"]
    /\ ret = NO_RET
    /\ trace = << >>
    /\ i = 0
    /\ is_command2_disable = TRUE
    /\ init_cmds = << >>

NextHandler ==
    \/ panel_st7701_del
    \/ panel_st7701_reset
    \/ panel_st7701_init_head
    \/ panel_st7701_init_loop
    \/ panel_st7701_init_tail
    \/ panel_st7701_invert_color
    \/ panel_st7701_mirror
    \/ panel_st7701_disp_on_off
    \/ panel_st7701_sleep

SpecHandler == InitHandler /\ [][NextHandler]_vars

---------------------------------------------------------------------------
(* Properties *)

\* a panel has been constructed (and possibly deleted since)
Constructed == pc \in {"idle", "init_loop", "deleted"}

\* the command list panel_st7701_init replays for the constructed panel
ReplayedList ==
    IF cfg.init_cmds_set THEN cfg.init_cmds ELSE vendor_specific_init_default

\* a page-select entry that carries at least 5 parameter bytes
IsSelect5(c) == c.cmd = ST7701_CMD_CND2BKxSEL /\ c.data_bytes >= 5

\* ... with the CN2 bit set in its 5th byte
IsSelect5CN2(c) == IsSelect5(c) /\ BitSet(c.data[5], ST7701_CMD_CN2_BIT)

\* the two registers the driver keeps in memory
Regs == << st7701.madctl_val, st7701.colmod_val >>

\* among the first n entries of cmds, the last page-select entry with at
\* least 5 bytes has the CN2 bit set
LastSelectSetsCN2(cmds, n) ==
    \E j \in 1..n : /\ IsSelect5CN2(cmds[j])
                    /\ \A k \in (j + 1)..n : ~IsSelect5(cmds[k])

\* C1 as stated: during initialize with a caller-supplied list, once a
\* page-select entry with at least 5 bytes and the CN2 bit set has been
\* replayed, no later entry changes orientationRegister or
\* pixelFormatRegister, whatever follows (further page selects included).
C1_Original ==
    [][ ( /\ pc = "init_loop"
          /\ cfg.init_cmds_set
          /\ \E j \in 1..(i - 1) : IsSelect5CN2(init_cmds[j]) )
        => Regs' = Regs ]_vars

\* C1 amended: during initialize with a caller-supplied list, while the
\* most recently replayed page-select entry with at least 5 bytes has the
\* CN2 bit set, no entry changes orientationRegister or pixelFormatRegister.
C1_NoOverrideWhileCN2 ==
    [][ ( /\ pc = "init_loop"
          /\ cfg.init_cmds_set
          /\ LastSelectSetsCN2(init_cmds, i - 1) )
        => Regs' = Regs ]_vars

\* an orientation entry whose byte differs from the register has been
\* replayed right after a CN2-set page select, and the register kept its value
C1_Witness ==
    /\ pc = "init_loop"
    /\ cfg.init_cmds_set
    /\ i >= 3
    /\ LastSelectSetsCN2(init_cmds, i - 2)
    /\ init_cmds[i - 1].cmd = LCD_CMD_MADCTL
    /\ init_cmds[i - 1].data_bytes > 0
    /\ init_cmds[i - 1].data[1] # st7701.madctl_val

---------------------------------------------------------------------------
\* initialize has returned success on a panel constructed with
\* resetPin = -1, colorOrder = RGB, bitsPerPixel = 16 and no caller list
DefaultInitDone ==
    /\ pc = "idle"
    /\ call.op = "init"
    /\ ret = ESP_OK
    /\ cfg.reset_gpio_num = -1
    /\ cfg.color_space = LCD_RGB_ELEMENT_ORDER_RGB
    /\ cfg.bits_per_pixel = 16
    /\ ~cfg.init_cmds_set

\* After the four writes ahead of the list, the trace holds exactly the n
\* entries of the default table in table order, each followed by its delay,
\* the last two being sleep-out (0x11, 120 ms) and display-on (0x29, 0 ms),
\* and then the one delegate-initialize call.
DefaultReplay(n) ==
    LET body == SubSeq(trace, 5, Len(trace) - 1)
        tbl == vendor_specific_init_default
    IN  /\ Len(tbl) = n
        /\ Len(body) = 2 * n
        /\ \A k \in 1..n :
              /\ body[2 * k - 1] = Tx(tbl[k].cmd, Param(tbl[k]))
              /\ body[2 * k] = Delay(tbl[k].delay_ms)
        /\ body[2 * n - 3] = Tx(17, << >>)
        /\ body[2 * n - 2] = Delay(120)
        /\ body[2 * n - 1] = Tx(41, << >>)
        /\ body[2 * n] = Delay(0)
        /\ trace[Len(trace)] = DelegateInit
        /\ Cardinality({ k \in 1..Len(trace) : trace[k].op = "dpi_init" }) = 1

\* C2 as stated: the successful initialize of the default panel replays
\* exactly the 38 entries of the built-in table, in order, ending with
\* sleep-out then display-on, and then calls delegate-initialize once.
C2_Original == DefaultInitDone => DefaultReplay(38)

\* C2 amended: the same with the 40 entries the built-in table has.
C2_DefaultReplay40 == DefaultInitDone => DefaultReplay(40)

C2_Witness == DefaultInitDone /\ Len(trace) > 80

---------------------------------------------------------------------------
\* the constructor failed after the st7701_panel_t was allocated
FailedAfterAlloc ==
    /\ pc = "failed"
    /\ call.op = "new"
    /\ call.io # NULL
    /\ call.vendor_ok
    /\ call.fail # "calloc"

\* the error that makes the constructor fail, in the order it checks
ConstructError ==
    IF cfg.reset_gpio_num >= 0 /\ call.fail = "gpio_config" THEN GPIO_ERR
    ELSE IF cfg.color_space \notin {LCD_RGB_ELEMENT_ORDER_RGB, LCD_RGB_ELEMENT_ORDER_BGR}
    THEN ESP_ERR_NOT_SUPPORTED
    ELSE IF cfg.bits_per_pixel \notin {16, 18, 24} THEN ESP_ERR_NOT_SUPPORTED
    ELSE DPI_ERR

\* C3: whenever construct fails after the PanelState was allocated, the
\* allocation has been released, the reset pin has been released, no panel
\* handle is returned and the status is the error that caused the failure.
C3_FailureReleasesState ==
    FailedAfterAlloc =>
        /\ ~allocated
        /\ ~rst_configured
        /\ (cfg.reset_gpio_num >= 0 =>
               \E k \in 1..Len(trace) : trace[k] = GpioResetPin(cfg.reset_gpio_num))
        /\ ~ret_panel
        /\ ret = ConstructError

\* What the constructor does keep of C3: everything but the release of the
\* allocation
C3_AllButFree ==
    FailedAfterAlloc =>
        /\ ~rst_configured
        /\ (cfg.reset_gpio_num >= 0 =>
               \E k \in 1..Len(trace) : trace[k] = GpioResetPin(cfg.reset_gpio_num))
        /\ ~ret_panel
        /\ ret = ConstructError

---------------------------------------------------------------------------
\* the constructor has just returned, every input but bitsPerPixel valid
\* and no collaborator failing
ConstructedValidButBpp ==
    /\ call.op = "new"
    /\ call.io # NULL
    /\ call.vendor_ok
    /\ call.fail = "none"
    /\ cfg.color_space \in {LCD_RGB_ELEMENT_ORDER_RGB, LCD_RGB_ELEMENT_ORDER_BGR}

\* C4: bitsPerPixel 16, 18 and 24 give pixelFormatRegister 0x55, 0x66 and
\* 0x77 on the constructed panel; any other value makes construct fail
\* with NotSupported and return no panel handle.
C4_PixelFormat ==
    ConstructedValidButBpp =>
        /\ cfg.bits_per_pixel = 16 =>
              (pc = "idle" /\ ret = ESP_OK /\ ret_panel /\ st7701.colmod_val = 85)
        /\ cfg.bits_per_pixel = 18 =>
              (pc = "idle" /\ ret = ESP_OK /\ ret_panel /\ st7701.colmod_val = 102)
        /\ cfg.bits_per_pixel = 24 =>
              (pc = "idle" /\ ret = ESP_OK /\ ret_panel /\ st7701.colmod_val = 119)
        /\ cfg.bits_per_pixel \notin {16, 18, 24} =>
              (pc = "failed" /\ ret = ESP_ERR_NOT_SUPPORTED /\ ~ret_panel)

C4_Witness ==
    /\ ConstructedValidButBpp
    /\ cfg.bits_per_pixel = 18
    /\ st7701.colmod_val = 102

---------------------------------------------------------------------------
\* C5: for all mirrorX, mirrorY, mirror on a panel whose transport
\* reference is NULL returns Failure, issues no transport write and leaves
\* orientationRegister unchanged.
C5_MirrorWithoutTransport ==
    [][ (call'.op = "mirror" /\ st7701.io = NULL)
        => /\ ret' = ESP_FAIL
           /\ \A k \in 1..Len(trace') : trace'[k].op # "tx"
           /\ trace' = << >>
           /\ st7701'.madctl_val = st7701.madctl_val ]_vars

\* mirror asking for the vertical mirror has returned Failure on a panel
\* without transport whose ML bit is clear
C5_Witness ==
    /\ call.op = "mirror"
    /\ call.mirror_y
    /\ st7701.io = NULL
    /\ ret = ESP_FAIL
    /\ ~BitSet(st7701.madctl_val, LCD_CMD_ML_BIT)

---------------------------------------------------------------------------
\* the bits of a uint8_t other than the vertical-mirror bit
BitsButML == {1, 2, 4, 8, 32, 64, 128}

\* C6: a mirror call on a live transport leaves the ML bit set iff mirrorY
\* and every other bit of orientationRegister as it was, whatever mirrorX
\* is; construction with colorOrder = BGR sets the BGR bit.  (By induction
\* the BGR bit is still set after any sequence of mirror calls.)
C6_MirrorChangesOnlyML ==
    [][ /\ (call'.op = "mirror" /\ st7701.io # NULL) =>
              /\ BitSet(st7701'.madctl_val, LCD_CMD_ML_BIT) <=> call'.mirror_y
              /\ \A b \in BitsButML :
                     BitSet(st7701'.madctl_val, b) <=> BitSet(st7701.madctl_val, b)
        /\ (call'.op = "new" /\ pc' = "idle"
               /\ cfg'.color_space = LCD_RGB_ELEMENT_ORDER_BGR) =>
              BitSet(st7701'.madctl_val, LCD_CMD_BGR_BIT) ]_vars

\* mirror(_, true) has run on a panel constructed for BGR: both bits are set
C6_Witness ==
    /\ call.op = "mirror"
    /\ call.mirror_y
    /\ ~cfg.init_cmds_set
    /\ cfg.color_space = LCD_RGB_ELEMENT_ORDER_BGR
    /\ BitSet(st7701.madctl_val, LCD_CMD_BGR_BIT)
    /\ BitSet(st7701.madctl_val, LCD_CMD_ML_BIT)

---------------------------------------------------------------------------
\* C7: reset takes one of three paths.  (1) With a reset GPIO: pin to the
\* active level, wait, pin to the inactive level, wait, and nothing on the
\* transport even when it is live.  (2) Without GPIO, transport live: one
\* software-reset command then a wait; if the send fails its error is
\* returned and there is no wait.  (3) Neither: success, nothing done.
C7_ResetPaths ==
    call.op = "reset" =>
        LET pin == st7701.reset_gpio_num
            lvl == IF st7701.reset_level THEN 1 ELSE 0
        IN  /\ pin >= 0 =>
                  /\ ret = ESP_OK
                  /\ Len(trace) = 4
                  /\ trace[1].op = "gpio_set_level" /\ trace[1].arg = pin
                  /\ trace[1].data = << lvl >>
                  /\ trace[2].op = "delay" /\ trace[2].arg > 0
                  /\ trace[3].op = "gpio_set_level" /\ trace[3].arg = pin
                  /\ trace[3].data = << 1 - lvl >>
                  /\ trace[4].op = "delay" /\ trace[4].arg > 0
            /\ (pin < 0 /\ st7701.io # NULL) =>
                  \/ /\ ret = ESP_OK
                     /\ Len(trace) = 2
                     /\ trace[1] = Tx(LCD_CMD_SWRESET, << >>)
                     /\ trace[2].op = "delay" /\ trace[2].arg > 0
                  \/ /\ ret = IO_ERR
                     /\ trace = << Failed(Tx(LCD_CMD_SWRESET, << >>), IO_ERR) >>
            /\ (pin < 0 /\ st7701.io = NULL) =>
                  /\ ret = ESP_OK
                  /\ trace = << >>

\* reset has returned on a panel with neither reset GPIO nor transport
C7_Witness ==
    /\ call.op = "reset"
    /\ st7701.reset_gpio_num < 0
    /\ st7701.io = NULL
    /\ ret = ESP_OK

---------------------------------------------------------------------------
\* orientationRegister as the constructor leaves it
MadctlAtConstruction ==
    IF cfg.color_space = LCD_RGB_ELEMENT_ORDER_BGR THEN LCD_CMD_BGR_BIT ELSE 0

\* orientationRegister differs from its construction-time value in the
\* vertical-mirror bit at most
OnlyMirrorBitDiffers ==
    /\ BitSet(st7701.madctl_val, LCD_CMD_BGR_BIT)
          <=> (cfg.color_space = LCD_RGB_ELEMENT_ORDER_BGR)
    /\ AndNotBit(st7701.madctl_val, LCD_CMD_ML_BIT) = MadctlAtConstruction

\* entry n of cmds is an orientation entry that panel_st7701_init takes as
\* an override: it carries a parameter byte and no page-select entry with
\* at least 5 bytes stands before it, or the last such entry has CN2 clear
MadctlOverrideAt(cmds, n) ==
    /\ cmds[n].cmd = LCD_CMD_MADCTL
    /\ cmds[n].data_bytes > 0
    /\ ~LastSelectSetsCN2(cmds, n - 1)

\* C8 as stated: in every state reachable by reset, initialize (default or
\* any caller-supplied list), mirror, invertColor, powerOnOff and sleep the
\* RGB/BGR bit of orientationRegister is the one set at construction and
\* only the mirror bits differ from their construction-time values.
C8_Original == Constructed => OnlyMirrorBitDiffers

\* C8 amended: the same for a panel whose command list is the default table
\* or a caller-supplied list without an orientation entry that initialize
\* takes as an override.
C8_FixedUnlessOverridden ==
    ( /\ Constructed
      /\ \A n \in 1..Len(ReplayedList) : ~MadctlOverrideAt(ReplayedList, n) )
    => OnlyMirrorBitDiffers

\* initialize has replayed a caller-supplied list that holds an orientation
\* entry with a parameter byte, none of them taken as an override
C8_Witness ==
    /\ pc = "idle"
    /\ call.op = "init"
    /\ ret = ESP_OK
    /\ cfg.init_cmds_set
    /\ \E n \in 1..Len(cfg.init_cmds) :
          /\ cfg.init_cmds[n].cmd = LCD_CMD_MADCTL
          /\ cfg.init_cmds[n].data_bytes > 0
    /\ \A n \in 1..Len(cfg.init_cmds) : ~MadctlOverrideAt(cfg.init_cmds, n)
    /\ OnlyMirrorBitDiffers

---------------------------------------------------------------------------
\* the four writes of a successful mirror(mirror_x, _) that leaves
\* orientationRegister as madctl
FourMirrorWrites(mirror_x, madctl) ==
    << Tx(ST7701_CMD_CND2BKxSEL,
          << ST7701_CMD_BKxSEL_BYTE0, ST7701_CMD_BKxSEL_BYTE1, ST7701_CMD_BKxSEL_BYTE2,
             ST7701_CMD_BKxSEL_BYTE3, ST7701_CMD_BKxSEL_BK0 + ST7701_CMD_CN2_BIT >>),
       Tx(ST7701_CMD_SDIR, << IF mirror_x THEN ST7701_CMD_SS_BIT ELSE 0 >>),
       Tx(ST7701_CMD_CND2BKxSEL,
          << ST7701_CMD_BKxSEL_BYTE0, ST7701_CMD_BKxSEL_BYTE1, ST7701_CMD_BKxSEL_BYTE2,
             ST7701_CMD_BKxSEL_BYTE3, 0 >>),
       Tx(LCD_CMD_MADCTL, << madctl >>) >>

\* C9: a successful mirror issues exactly four writes in this order: page
\* select enabling command-group-2 bank 0, SDIR with the SS bit set iff
\* mirrorX, page select with 5th byte 0, MADCTL with the updated
\* orientationRegister.  If one of them fails, mirror returns that failure
\* and issues none of the later writes.
C9_MirrorWrites ==
    (call.op = "mirror" /\ st7701.io # NULL) =>
        LET four == FourMirrorWrites(call.mirror_x, st7701.madctl_val)
        IN  /\ ret = ESP_OK => trace = four
            /\ ret # ESP_OK =>
                  \E k \in 1..4 :
                      /\ Len(trace) = k
                      /\ \A j \in 1..(k - 1) : trace[j] = four[j]
                      /\ trace[k] = [four[k] EXCEPT !.res = ret]

\* mirror(true, true) has succeeded
C9_Witness ==
    /\ call.op = "mirror"
    /\ call.mirror_x
    /\ call.mirror_y
    /\ ret = ESP_OK
    /\ Len(trace) = 4

---------------------------------------------------------------------------
IsCall(o) == o.op # "delay"

\* the transport operations and delegate calls of the running or the last
\* initialize, without the delays
InitCalls == SelectSeq(trace, IsCall)

\* the k-th operation of initialize on list cmds is o, up to its result (and
\* up to the byte written to MADCTL and COLMOD)
IsInitCall(cmds, k, o) ==
    CASE k = 1 -> o.op = "rx" /\ o.arg = CMD_READ_ID /\ o.data = << 3 >>
      [] k = 2 -> /\ o.op = "tx" /\ o.arg = ST7701_CMD_CND2BKxSEL
                  /\ o.data = << ST7701_CMD_BKxSEL_BYTE0, ST7701_CMD_BKxSEL_BYTE1,
                                 ST7701_CMD_BKxSEL_BYTE2, ST7701_CMD_BKxSEL_BYTE3, 0 >>
      [] k = 3 -> o.op = "tx" /\ o.arg = LCD_CMD_MADCTL /\ Len(o.data) = 1
      [] k = 4 -> o.op = "tx" /\ o.arg = LCD_CMD_COLMOD /\ Len(o.data) = 1
      [] k > 4 /\ k <= 4 + Len(cmds) ->
            /\ o.op = "tx" /\ o.arg = cmds[k - 4].cmd
            /\ o.data = SubSeq(cmds[k - 4].data, 1, cmds[k - 4].data_bytes)
      [] k = 5 + Len(cmds) -> o.op = "dpi_init"
      [] OTHER -> FALSE

\* C10: initialize reads the 3-byte chip ID, writes page-select to page 0,
\* orientationRegister to MADCTL, pixelFormatRegister to COLMOD, each entry
\* of the active list in list order, and then invokes delegate-initialize.
\* The first operation that fails ends it: initialize returns that failure
\* and does nothing further; delegate-initialize is invoked only when every
\* operation before it succeeded.
C10_InitOrder ==
    call.op = "init" =>
        LET calls == InitCalls
            n == Len(calls)
        IN  /\ n >= 1
            /\ \A k \in 1..n : IsInitCall(ReplayedList, k, calls[k])
            /\ \A k \in 1..(n - 1) : calls[k].res = ESP_OK
            \* the bytes written to MADCTL and COLMOD are the registers'
            /\ (n <= 4 \/ (pc = "init_loop" /\ i = 1)) =>
                  /\ n >= 3 => calls[3].data = << st7701.madctl_val >>
                  /\ n >= 4 => calls[4].data = << st7701.colmod_val >>
            \* still running: nothing has failed, i - 1 entries are written
            /\ pc = "init_loop" =>
                  /\ calls[n].res = ESP_OK
                  /\ n = 4 + (i - 1)
            \* returned: with the result of the last operation made, which
            \* is delegate-initialize unless an operation failed
            /\ pc = "idle" =>
                  /\ ret = calls[n].res
                  /\ ret = ESP_OK => n = 5 + Len(ReplayedList)

\* initialize has failed on a write of a caller-supplied list
C10_Witness ==
    /\ call.op = "init"
    /\ pc = "idle"
    /\ cfg.init_cmds_set
    /\ ret = IO_ERR
    /\ Len(InitCalls) > 5
    /\ Len(InitCalls) <= 4 + Len(cfg.init_cmds)

====
